---- MODULE Spec2Model ----
(***************************************************************************)
(* A model of riot (src/riot/riot.py): the Venv tree, Venv.resolve,        *)
(* Venv.instances, expand_specs and the Session operations list_venvs,     *)
(* generate_base_venvs and run.                                            *)
(*                                                                         *)
(* Python values are modelled as follows.                                  *)
(*   - None is the string "None"; a name or command is None or a           *)
(*     non-empty string, so `if x:` is x # None.                           *)
(*   - a list is a sequence; a dict is a sequence of <<key, value>> pairs  *)
(*     in insertion order (dicts iterate in insertion order, and           *)
(*     dict.update keeps the position of a key it overwrites).             *)
(*   - attr.ib(default={}) hands the SAME dict object to every Venv built  *)
(*     without that argument.  A Venv field is therefore either a          *)
(*     reference to that shared object ([shared |-> TRUE]) or a dict of    *)
(*     its own; the contents of the two shared objects (one for pkgs, one  *)
(*     for env) are the state variable `defaults`.                         *)
(*   - a compiled pattern is the set of names pattern.match accepts.       *)
(***************************************************************************)
EXTENDS Integers, Sequences, FiniteSets, TLC

VARIABLES
    tree,       \* Session.venv: node id -> Venv fields (children as node ids)
    pattern,    \* the pattern argument: the set of names it matches
    pythons,    \* the pythons argument of run / generate_base_venvs
    skip_deps,  \* the skip_base_install / skip_deps argument
    pass_env,   \* the pass_env argument of run
    cmdargs,    \* the cmdargs argument of run
    defaults,   \* contents of the shared default dicts of Venv.pkgs / Venv.env
    resolve_out,   \* the last direct call of resolve: its node and what it returned
    listed,     \* what the last list_venvs enumerated
    list_done,  \* whether list_venvs was called
    combos,     \* the last direct call of expand_specs: its argument and result
    pc,         \* position of the process
    required,   \* generate_base_venvs: required_pys
    venv_py,         \* generate_base_venvs: the py whose base venv was just created
    created,    \* pys whose create_base_venv returned a path
    failed,     \* pys whose create_base_venv raised CmdFailure/FileNotFoundError
    insts,      \* run: the instances its loop goes through (after the py filter)
    idx,        \* run: index in insts of the instance being processed
    results,    \* run: the results list
    last,       \* the last external command run or exception raised, and how it ended
    cmd_env,    \* run: the env built for the command of the latest instance
    cmd_run,    \* run: the command line that the latest test command executed
    printed,    \* the summary: whether it was printed, and its lines
    exit        \* process exit status: "running", "zero" or "nonzero"

vars == <<tree, pattern, pythons, skip_deps, pass_env, cmdargs, defaults, resolve_out,
          listed, list_done, combos, pc, required, venv_py, created, failed, insts,
          idx, results, last, cmd_env, cmd_run, printed, exit>>

None == "None"

----------------------------------------------------------------------------
(* Bounds of the model *)

\* a failed command returns a code in 1..MaxCode
MaxCode == 2

\* a package or env axis of a single-node tree has at most MaxVals candidates
MaxVals == 2

----------------------------------------------------------------------------
(* Dicts *)

Keys(d) == {d[i][1] : i \in 1..Len(d)}

Get(d, k) == LET i == CHOOSE i \in 1..Len(d) : d[i][1] = k IN d[i][2]

\* d[k] = v
SetItem(d, k, v) ==
    IF k \in Keys(d)
    THEN [i \in 1..Len(d) |-> IF d[i][1] = k THEN <<k, v>> ELSE d[i]]
    ELSE Append(d, <<k, v>>)

\* d.update(e)
RECURSIVE Update(_, _)
Update(d, e) ==
    IF e = <<>> THEN d
    ELSE Update(SetItem(d, e[1][1], e[1][2]), Tail(e))

\* a field declared with attr.ib(default={}): the shared object, or its own dict
Shared == [shared |-> TRUE, val |-> <<>>]
Own(d) == [shared |-> FALSE, val |-> d]

\* the dict a field refers to, given the contents of the shared object
Deref(f, d) == IF f.shared THEN d ELSE f.val

----------------------------------------------------------------------------
(* Venv, Venv.resolve, expand_specs, Venv.instances *)

\* Venv(name, command, pys, pkgs, env, venvs); venvs holds node ids of the tree
Venv(name, command, pys, pkgs, env, venvs) ==
    [name |-> name, command |-> command, pys |-> pys,
     pkgs |-> pkgs, env |-> env, venvs |-> venvs]

\* ResolveStep as it would be if a name, command or interpreter list that an
\* earlier chain element set were kept
ResolveStepFirstWins(venv, parent, d) ==
    [venv |-> [name    |-> IF venv.name = None THEN parent.name ELSE venv.name,
               pys     |-> IF venv.pys = <<>> THEN parent.pys ELSE venv.pys,
               command |-> IF venv.command = None THEN parent.command
                                                   ELSE venv.command],
     d    |-> [env  |-> Update(d.env, Deref(parent.env, d.env)),
               pkgs |-> Update(d.pkgs, Deref(parent.pkgs, d.pkgs))]]

\* one iteration of the loop of resolve over `parents + [self]`: venv is the
\* node being built (its env and pkgs are the shared default dicts, whose
\* contents are d), parent the chain element
ResolveStep(venv, parent, d) ==
    [venv |-> [name    |-> IF parent.name # None THEN parent.name ELSE venv.name,
               pys     |-> IF parent.pys # <<>> THEN parent.pys ELSE venv.pys,
               command |-> IF parent.command # None THEN parent.command
                                                     ELSE venv.command],
     d    |-> [env  |-> Update(d.env, Deref(parent.env, d.env)),
               pkgs |-> Update(d.pkgs, Deref(parent.pkgs, d.pkgs))]]

RECURSIVE ResolveLoop(_, _, _, _)
ResolveLoop(t, chain, venv, d) ==
    IF chain = <<>> THEN [venv |-> venv, d |-> d]
    ELSE LET s == ResolveStep(venv, t[Head(chain)], d)
         IN  ResolveLoop(t, Tail(chain), s.venv, s.d)

\* self.resolve(parents) with the shared dicts holding d: the resolved node,
\* with env and pkgs read as expand_specs reads them right after the call,
\* and the contents of the shared dicts after the call
resolve(t, self, parents, d) ==
    IF parents = <<>>
    THEN [venv |-> [name |-> t[self].name, pys |-> t[self].pys,
                    command |-> t[self].command,
                    env |-> Deref(t[self].env, d.env),
                    pkgs |-> Deref(t[self].pkgs, d.pkgs)],
          d |-> d]
    ELSE LET r == ResolveLoop(t, Append(parents, self),
                              [name |-> None, pys |-> <<>>, command |-> None], d)
         IN  [venv |-> [name |-> r.venv.name, pys |-> r.venv.pys,
                        command |-> r.venv.command,
                        env |-> r.d.env, pkgs |-> r.d.pkgs],
              d |-> r.d]

RECURSIVE Flatten(_)
Flatten(ss) == IF ss = <<>> THEN <<>> ELSE Head(ss) \o Flatten(Tail(ss))

RECURSIVE expand_specs(_)

\* expand_specs as it would be if the first axis varied fastest
expand_specs_first_fastest(specs) ==
    IF specs = <<>> THEN << <<>> >>
    ELSE LET name == specs[1][1]
             vals == specs[1][2]
             rest == expand_specs(Tail(specs))
         IN  Flatten([j \in 1..Len(rest) |->
                        [i \in 1..Len(vals) |-> <<<<name, vals[i]>>>> \o rest[j]]])

\* itertools.product over the axes of specs, last axis varying fastest
expand_specs(specs) ==
    IF specs = <<>> THEN << <<>> >>
    ELSE LET name == specs[1][1]
             vals == specs[1][2]
             rest == expand_specs(Tail(specs))
         IN  Flatten([i \in 1..Len(vals) |->
                        [j \in 1..Len(rest) |-> <<<<name, vals[i]>>>> \o rest[j]]])

\* VenvInstance; origin is the node whose call of instances yielded it (not a
\* field of the class: it records where in the tree the instance comes from)
VenvInstance(name, command, py, env, pkgs, origin) ==
    [name |-> name, command |-> command, py |-> py, env |-> env, pkgs |-> pkgs,
     origin |-> origin]

\* Expand as it would be if the loop over the interpreters were the outermost
ExpandPyOutermost(resolved, origin) ==
    IF resolved.command = None \/ resolved.pys = <<>> THEN <<>>
    ELSE LET envs == expand_specs(resolved.env)
             pkgss == expand_specs(resolved.pkgs)
         IN  Flatten([p \in 1..Len(resolved.pys) |->
               Flatten([e \in 1..Len(envs) |->
                 [k \in 1..Len(pkgss) |->
                    VenvInstance(resolved.name, resolved.command, resolved.pys[p],
                                 envs[e], pkgss[k], origin)]])])

\* Expand as it would be if a node without a command were expanded
ExpandWithoutCommand(resolved, origin) ==
    IF resolved.pys = <<>> THEN <<>>
    ELSE LET envs == expand_specs(resolved.env)
             pkgss == expand_specs(resolved.pkgs)
         IN  Flatten([e \in 1..Len(envs) |->
               Flatten([p \in 1..Len(resolved.pys) |->
                 [k \in 1..Len(pkgss) |->
                    VenvInstance(resolved.name, resolved.command, resolved.pys[p],
                                 envs[e], pkgss[k], origin)]])])

\* the else branch of instances: the instances of the resolved node
Expand(resolved, origin) ==
    IF resolved.command = None \/ resolved.pys = <<>> THEN <<>>
    ELSE LET envs == expand_specs(resolved.env)
             pkgss == expand_specs(resolved.pkgs)
         IN  Flatten([e \in 1..Len(envs) |->
               Flatten([p \in 1..Len(resolved.pys) |->
                 [k \in 1..Len(pkgss) |->
                    VenvInstance(resolved.name, resolved.command, resolved.pys[p],
                                 envs[e], pkgss[k], origin)]])])

\* pattern.match(name)
Match(pat, name) == name \in pat

\* self.instances(pattern, parents), run to exhaustion, with the shared dicts
\* holding d: what it yields and the contents of the shared dicts afterwards.
\* ChildLoop is the for loop over self.venvs from its k-th element on.
RECURSIVE instances(_, _, _, _, _), ChildLoop(_, _, _, _, _, _)

\* ChildLoop as it would be without the test of the child's name
ChildLoopNoPrune(t, self, k, pat, parents, d) ==
    IF k > Len(t[self].venvs) THEN [insts |-> <<>>, d |-> d]
    ELSE LET venv == t[self].venvs[k]
             sub  == instances(t, venv, pat, Append(parents, self), d)
             rest == ChildLoop(t, self, k + 1, pat, parents, sub.d)
         IN  [insts |-> sub.insts \o rest.insts, d |-> rest.d]

ChildLoop(t, self, k, pat, parents, d) ==
    IF k > Len(t[self].venvs) THEN [insts |-> <<>>, d |-> d]
    ELSE LET venv == t[self].venvs[k]
             sub  == IF t[venv].name # None /\ ~Match(pat, t[venv].name)
                     THEN [insts |-> <<>>, d |-> d]
                     ELSE instances(t, venv, pat, Append(parents, self), d)
             rest == ChildLoop(t, self, k + 1, pat, parents, sub.d)
         IN  [insts |-> sub.insts \o rest.insts, d |-> rest.d]

\* instances as it would be if a node whose children yielded something
\* yielded nothing of its own
instancesChildrenOrOwn(t, self, pat, parents, d) ==
    LET sub == ChildLoop(t, self, 1, pat, parents, d)
        r   == resolve(t, self, parents, sub.d)
    IN  [insts |-> IF sub.insts # <<>> THEN sub.insts ELSE Expand(r.venv, self),
         d |-> r.d]

instances(t, self, pat, parents, d) ==
    LET sub == ChildLoop(t, self, 1, pat, parents, d)
        r   == resolve(t, self, parents, sub.d)
    IN  [insts |-> sub.insts \o Expand(r.venv, self), d |-> r.d]

----------------------------------------------------------------------------
(* The tree the session owns *)

Root == 1
Nodes == {1, 2, 3}

\* the node that holds n in its venvs
ParentOf(t, n) == CHOOSE m \in Nodes : \E k \in 1..Len(t[m].venvs) : t[m].venvs[k] = n

\* the path from the root to n, and the parents argument instances passes
\* to resolve for n
RECURSIVE Chain(_, _)
Chain(t, n) == IF n = Root THEN <<Root>> ELSE Append(Chain(t, ParentOf(t, n)), n)

Parents(t, n) == IF n = Root THEN <<>> ELSE Chain(t, ParentOf(t, n))

\* the shapes of a tree of three nodes: the children of each node
Shapes == { <<<<2, 3>>, <<>>, <<>>>>, <<<<2>>, <<3>>, <<>>>> }

\* every tree of one of the shapes whose root takes its fields from rootOpts
\* and whose other nodes take theirs from nodeOpts
TreesOver(rootOpts, nodeOpts) ==
    {[n \in Nodes |-> Venv(f[n].name, f[n].command, f[n].pys, f[n].pkgs, f[n].env,
                           shape[n])] :
        shape \in Shapes,
        f \in {[n \in Nodes |-> IF n = Root THEN r ELSE g[n]] :
                  r \in rootOpts, g \in [Nodes \ {Root} -> nodeOpts]}}

\* versions: strings as sequences of characters; NoneV is None
V0 == <<>>
V1 == <<">", "=", "1">>
V2 == <<"=", "=", "1">>
NoneV == <<None>>

----------------------------------------------------------------------------
(* Session: list_venvs, generate_base_venvs, run *)

Range(s) == {s[i] : i \in 1..Len(s)}

\* the pkgs dict of run: the (name, version) pairs whose version is not None
InstPkgs(inst) == SelectSeq(inst.pkgs, LAMBDA nv : nv[2] # NoneV)

\* s with every character of chars removed
rmchars(chars, s) == SelectSeq(s, LAMBDA c : c \notin chars)

\* f"{libname}{version}"
get_pep_dep(libname, version) == <<libname>> \o version

\* ".riot/.venv_py" followed by str(pyversion) without its dots; the
\* interpreters of the model are integers, whose str has no dot
get_base_venv_path(pyversion) == <<".riot/.venv_py", ToString(pyversion)>>

\* sep.join(parts), for parts that are sequences of characters
RECURSIVE Join(_, _)
Join(sep, parts) ==
    IF parts = <<>> THEN <<>>
    ELSE IF Len(parts) = 1 THEN parts[1]
    ELSE parts[1] \o <<sep>> \o Join(sep, Tail(parts))

\* venv_name as it would be if the name of the node were part of it
venv_name_of_node(inst) ==
    get_base_venv_path(inst.py) \o <<"_", inst.name>> \o
    Join("_", [i \in 1..Len(InstPkgs(inst)) |->
                 <<InstPkgs(inst)[i][1]>> \o
                 rmchars({"<", "=", ">", ".", ","}, InstPkgs(inst)[i][2])])

\* venv_name of run, lines 151-169: the base venv path, then for each package
\* its name and its version stripped of the characters <=>.,
venv_name(inst) ==
    LET base_venv == get_base_venv_path(inst.py)
        pkgs == InstPkgs(inst)
        venv_postfix ==
            Join("_", [i \in 1..Len(pkgs) |->
                         <<pkgs[i][1]>> \o rmchars({"<", "=", ">", ".", ","}, pkgs[i][2])])
    IN  IF pkgs # <<>> THEN base_venv \o <<"_">> \o venv_postfix ELSE base_venv

\* pkg_str of run, lines 164-169: the quoted requirements, space separated
pkg_str(inst) ==
    LET pkgs == InstPkgs(inst)
    IN  Join(" ", [i \in 1..Len(pkgs) |->
                     <<"'">> \o get_pep_dep(pkgs[i][1], pkgs[i][2]) \o <<"'">>])

\* os.environ of the process: two variables, one of them named like a
\* variable that venvs set
environ == << <<"e", "host_e">>, <<"h", "host_h">> >>

\* a callable env value: lambda venv: "has_p" if "p" in venv.pkgs else None
CallP == "lambda_p"

\* v(AttrDict(pkgs=pkgs)) if callable(v) else v
ResolvedVal(v, pkgs) ==
    IF v = CallP THEN (IF "p" \in Keys(pkgs) THEN "has_p" ELSE None) ELSE v

\* the loop of lines 209-215 over the pairs of inst.env from the k-th on
RECURSIVE EnvLoop(_, _, _, _)
EnvLoop(env, pairs, k, pkgs) ==
    IF k > Len(pairs) THEN env
    ELSE LET resolved_val == ResolvedVal(pairs[k][2], pkgs)
         IN  EnvLoop(IF resolved_val # None THEN SetItem(env, pairs[k][1], resolved_val)
                                             ELSE env,
                     pairs, k + 1, pkgs)

\* command_env as it would be if a variable of the host kept its value
command_env_host_wins(inst, pass) ==
    Update(EnvLoop(<<>>, inst.env, 1, InstPkgs(inst)),
           IF pass THEN environ ELSE <<>>)

\* the env of the command of inst, lines 206-215
command_env(inst, pass) ==
    EnvLoop(IF pass THEN environ ELSE <<>>, inst.env, 1, InstPkgs(inst))

\* f"source {venv_path}/bin/activate && {cmd}"
get_venv_command(venv_path, cmd) ==
    <<"source ">> \o venv_path \o <<"/bin/activate && ">> \o cmd

\* the text of a command: a string is a sequence of pieces, and the pieces
\* that str.format reads are pieces of their own: a replacement field
\* ("{cmdargs}", "{X}") or a doubled brace ("{{", "}}")
CommandText(command) ==
    CASE command = "c {cmdargs}"     -> <<"c ", "{cmdargs}">>
      [] command = "{cmdargs} c {cmdargs}" -> <<"{cmdargs}", " c ", "{cmdargs}">>
      [] command = "c ${X}"          -> <<"c $", "{X}">>
      [] command = "c {{}}"          -> <<"c ", "{{", "}}">>
      [] OTHER                       -> <<command>>

\* the replacement fields of the texts of the model that are not {cmdargs}
OtherFields == {"{X}"}

\* str(v)
Str(v) == IF v = None THEN "None" ELSE v

\* s.format(cmdargs=v) raises KeyError: s has a field that is not cmdargs
FormatRaises(s) == \E i \in 1..Len(s) : s[i] \in OtherFields

\* s.format(cmdargs=v), for s without another field: every {cmdargs} becomes
\* str(v) and every doubled brace a single one
format(s, v) ==
    [i \in 1..Len(s) |->
        CASE s[i] = "{cmdargs}" -> Str(v)
          [] s[i] = "{{"        -> "{"
          [] s[i] = "}}"        -> "}"
          [] OTHER              -> s[i]]

\* the command line of the test command of inst before run_cmd formats it:
\* run_cmd_venv, lines 382-388
command_line(inst) == get_venv_command(venv_name(inst), CommandText(inst.command))

\* VenvInstanceResult(instance=inst, venv_name=venv_name, pkgstr=pkg_str)
\* with its code, which defaults to 1
VenvInstanceResult(instance, code) ==
    [instance |-> instance, venv_name |-> venv_name(instance),
     pkgstr |-> pkg_str(instance), code |-> code]

\* PyFilter as it would be if the loop of run skipped no instance
PyFilterOff(inst) == TRUE

\* `if pythons and inst.py not in pythons: continue`
PyFilter(inst) == pythons = {} \/ inst.py \in pythons

\* required_pys of generate_base_venvs
RequiredPys(es) ==
    LET all == {es[i].py : i \in 1..Len(es)}
    IN  IF pythons # {} THEN all \cap pythons ELSE all

Log(kind, arg, outcome) == last' = <<kind, arg, outcome>>

\* the process ends with the given status
Exit(status) == pc' = "exited" /\ exit' = status

\* list_venvs(pattern): enumerates and prints the instances
ListVenvs ==
    /\ pc = "start"
    /\ LET e == instances(tree, Root, pattern, <<>>, defaults)
       IN  /\ listed' = e.insts
           /\ defaults' = e.d
    /\ list_done' = TRUE
    /\ UNCHANGED <<tree, pattern, pythons, skip_deps, pass_env, cmdargs,
                   resolve_out, pc, required, venv_py, created, failed,
                   insts, idx, results, last, printed, exit, combos, cmd_env,
                   cmd_run>>

\* a direct call of tree[n].resolve(ancestors of n)
Resolve(n) ==
    /\ pc = "start"
    /\ LET r == resolve(tree, n, Parents(tree, n), defaults)
       IN  /\ resolve_out' = [node |-> n, venv |-> r.venv]
           /\ defaults' = r.d
    /\ UNCHANGED <<tree, pattern, pythons, skip_deps, pass_env, cmdargs,
                   listed, pc, required, venv_py, created, failed, insts,
                   idx, results, last, printed, exit, list_done, combos,
                   cmd_env, cmd_run>>

\* a direct call of expand_specs on the pkgs or the env of the root
ExpandSpecs(field) ==
    /\ pc = "start"
    /\ LET specs == IF field = "pkgs" THEN Deref(tree[Root].pkgs, defaults.pkgs)
                                       ELSE Deref(tree[Root].env, defaults.env)
       IN  combos' = [done |-> TRUE, specs |-> specs, out |-> expand_specs(specs)]
    /\ UNCHANGED <<tree, pattern, pythons, skip_deps, pass_env, cmdargs,
                   defaults, resolve_out, listed, list_done, pc, required,
                   venv_py, created, failed, insts, idx, results, last,
                   cmd_env, printed, exit, cmd_run>>

\* run, up to the loop of generate_base_venvs: results = [], the first
\* enumeration and required_pys
RunStart ==
    /\ pc = "start"
    /\ LET e == instances(tree, Root, pattern, <<>>, defaults)
       IN  /\ required' = RequiredPys(e.insts)
           /\ defaults' = e.d
    /\ results' = <<>>
    /\ pc' = "provision"
    /\ UNCHANGED <<tree, pattern, pythons, skip_deps, pass_env, cmdargs,
                   resolve_out, listed, venv_py, created, failed, insts, idx,
                   last, printed, exit, list_done, combos, cmd_env, cmd_run>>

\* create_base_venv(p) returns a path; with skip_deps the loop continues,
\* otherwise the dev package is installed next
CreateOk(p) ==
    /\ pc = "provision"
    /\ p \in required \ (created \cup failed)
    /\ created' = created \cup {p}
    /\ venv_py' = p
    /\ Log("create", p, "ok")
    /\ pc' = IF skip_deps THEN "provision" ELSE "devinstall"
    /\ UNCHANGED <<tree, pattern, pythons, skip_deps, pass_env, cmdargs,
                   defaults, resolve_out, listed, required, failed, insts,
                   idx, results, printed, exit, list_done, combos, cmd_env,
                   cmd_run>>

\* CreateFail as it would be if a creation failure ended the process
CreateFailExit(p, how) ==
    /\ pc = "provision"
    /\ p \in required \ (created \cup failed)
    /\ failed' = failed \cup {p}
    /\ Log("create", p, how)
    /\ Exit("nonzero")
    /\ UNCHANGED <<tree, pattern, pythons, skip_deps, pass_env, cmdargs,
                   defaults, resolve_out, listed, required, venv_py, created,
                   insts, idx, results, printed, list_done, combos, cmd_env,
                   cmd_run>>

\* create_base_venv(p) raises CmdFailure ("fail") or FileNotFoundError
\* ("notfound"): logged, and the loop goes on
CreateFail(p, how) ==
    /\ pc = "provision"
    /\ p \in required \ (created \cup failed)
    /\ failed' = failed \cup {p}
    /\ Log("create", p, how)
    /\ UNCHANGED <<tree, pattern, pythons, skip_deps, pass_env, cmdargs,
                   defaults, resolve_out, listed, pc, required, venv_py,
                   created, insts, idx, results, printed, exit, list_done,
                   combos, cmd_env, cmd_run>>

\* pip install -e . in the base venv succeeds
DevInstallOk ==
    /\ pc = "devinstall"
    /\ Log("devinstall", venv_py, "ok")
    /\ pc' = "provision"
    /\ UNCHANGED <<tree, pattern, pythons, skip_deps, pass_env, cmdargs,
                   defaults, resolve_out, listed, required, venv_py, created,
                   failed, insts, idx, results, printed, exit, list_done,
                   combos, cmd_env, cmd_run>>

\* DevInstallFail as it would be if the failure were only logged
DevInstallFailLogged ==
    /\ pc = "devinstall"
    /\ Log("devinstall", venv_py, "fail")
    /\ pc' = "provision"
    /\ UNCHANGED <<tree, pattern, pythons, skip_deps, pass_env, cmdargs,
                   defaults, resolve_out, listed, required, venv_py, created,
                   failed, insts, idx, results, printed, exit, list_done,
                   combos, cmd_env, cmd_run>>

\* pip install -e . in the base venv fails: sys.exit(1)
DevInstallFail ==
    /\ pc = "devinstall"
    /\ Log("devinstall", venv_py, "fail")
    /\ Exit("nonzero")
    /\ UNCHANGED <<tree, pattern, pythons, skip_deps, pass_env, cmdargs,
                   defaults, resolve_out, listed, required, venv_py, created,
                   failed, insts, idx, results, printed, list_done, combos,
                   cmd_env, cmd_run>>

\* generate_base_venvs returns; the loop of run starts on the second
\* enumeration (the generator is consumed as the loop goes, and nothing else
\* touches what it reads meanwhile)
LoopStart ==
    /\ pc = "provision"
    /\ required = created \cup failed
    /\ LET e == instances(tree, Root, pattern, <<>>, defaults)
       IN  /\ insts' = SelectSeq(e.insts, PyFilter)
           /\ defaults' = e.d
    /\ idx' = 1
    /\ pc' = "loop"
    /\ UNCHANGED <<tree, pattern, pythons, skip_deps, pass_env, cmdargs,
                   resolve_out, listed, required, venv_py, created, failed,
                   results, last, printed, exit, list_done, combos, cmd_env,
                   cmd_run>>

\* LoopNext as it would be if an environment that an earlier instance of the
\* run cloned were used as it is
LoopNextSkipCloned ==
    /\ pc = "loop"
    /\ pc' = IF idx > Len(insts) THEN "summary"
             ELSE IF /\ InstPkgs(insts[idx]) # <<>>
                     /\ \A j \in 1..Len(results) :
                           results[j].venv_name # venv_name(insts[idx])
                  THEN "clone" ELSE "command"
    /\ UNCHANGED <<tree, pattern, pythons, skip_deps, pass_env, cmdargs,
                   defaults, resolve_out, listed, required, venv_py, created,
                   failed, insts, idx, results, last, printed, exit,
                   list_done, combos, cmd_env, cmd_run>>

\* the head of the loop body, lines 146-177: the next instance, its pkgs and
\* its result object; or the end of the loop
LoopNext ==
    /\ pc = "loop"
    /\ pc' = IF idx > Len(insts) THEN "summary"
             ELSE IF InstPkgs(insts[idx]) # <<>> THEN "clone" ELSE "command"
    /\ UNCHANGED <<tree, pattern, pythons, skip_deps, pass_env, cmdargs,
                   defaults, resolve_out, listed, required, venv_py, created,
                   failed, insts, idx, results, last, printed, exit,
                   list_done, combos, cmd_env, cmd_run>>

\* the command of the current step (cp -r, pip install, the test command)
\* returns 0; the test command is given the env built for the instance
StepOk ==
    /\ pc \in {"clone", "install", "command"}
    /\ pc = "command" => ~FormatRaises(command_line(insts[idx]))
    /\ cmd_env' = IF pc = "command" THEN command_env(insts[idx], pass_env)
                                     ELSE cmd_env
    /\ cmd_run' = IF pc = "command" THEN format(command_line(insts[idx]), cmdargs)
                                     ELSE cmd_run
    /\ Log(pc, idx, "ok")
    /\ IF pc = "command"
       THEN /\ results' = Append(results, VenvInstanceResult(insts[idx], 0))
            /\ idx' = idx + 1
            /\ pc' = "loop"
       ELSE /\ pc' = IF pc = "clone" THEN "install" ELSE "command"
            /\ UNCHANGED <<results, idx>>
    /\ UNCHANGED <<tree, pattern, pythons, skip_deps, pass_env, cmdargs,
                   defaults, resolve_out, listed, required, venv_py, created,
                   failed, insts, printed, exit, list_done, combos>>

\* StepFail as it would be if the handler of CmdFailure left the loop
StepFailBreak(code) ==
    /\ pc \in {"clone", "install", "command"}
    /\ pc = "command" => ~FormatRaises(command_line(insts[idx]))
    /\ cmd_env' = IF pc = "command" THEN command_env(insts[idx], pass_env)
                                     ELSE cmd_env
    /\ cmd_run' = IF pc = "command" THEN format(command_line(insts[idx]), cmdargs)
                                     ELSE cmd_run
    /\ Log(pc, idx, "fail")
    /\ results' = Append(results, VenvInstanceResult(insts[idx], code))
    /\ pc' = "summary"
    /\ UNCHANGED <<tree, pattern, pythons, skip_deps, pass_env, cmdargs,
                   defaults, resolve_out, listed, required, venv_py, created,
                   failed, insts, idx, printed, exit, list_done, combos>>

\* StepFail as it would be if a failed clone or install were only logged
\* and the next step of the instance were run
StepFailNextStep(code) ==
    /\ pc \in {"clone", "install", "command"}
    /\ pc = "command" => ~FormatRaises(command_line(insts[idx]))
    /\ cmd_env' = IF pc = "command" THEN command_env(insts[idx], pass_env)
                                     ELSE cmd_env
    /\ cmd_run' = IF pc = "command" THEN format(command_line(insts[idx]), cmdargs)
                                     ELSE cmd_run
    /\ Log(pc, idx, "fail")
    /\ IF pc = "command"
       THEN /\ results' = Append(results, VenvInstanceResult(insts[idx], code))
            /\ idx' = idx + 1
            /\ pc' = "loop"
       ELSE /\ pc' = IF pc = "clone" THEN "install" ELSE "command"
            /\ UNCHANGED <<results, idx>>
    /\ UNCHANGED <<tree, pattern, pythons, skip_deps, pass_env, cmdargs,
                   defaults, resolve_out, listed, required, venv_py, created,
                   failed, insts, printed, exit, list_done, combos>>

\* the command of the current step returns code # 0: CmdFailure, caught at
\* line 229; finally appends the result and the loop goes on
StepFail(code) ==
    /\ pc \in {"clone", "install", "command"}
    /\ pc = "command" => ~FormatRaises(command_line(insts[idx]))
    /\ cmd_env' = IF pc = "command" THEN command_env(insts[idx], pass_env)
                                     ELSE cmd_env
    /\ cmd_run' = IF pc = "command" THEN format(command_line(insts[idx]), cmdargs)
                                     ELSE cmd_run
    /\ Log(pc, idx, "fail")
    /\ results' = Append(results, VenvInstanceResult(insts[idx], code))
    /\ idx' = idx + 1
    /\ pc' = "loop"
    /\ UNCHANGED <<tree, pattern, pythons, skip_deps, pass_env, cmdargs,
                   defaults, resolve_out, listed, required, venv_py, created,
                   failed, insts, printed, exit, list_done, combos>>

\* StepInterrupt as it would be if KeyboardInterrupt were handled like a
\* command failure, without the break
StepInterruptContinue ==
    /\ pc \in {"clone", "install", "command"}
    /\ Log(pc, idx, "interrupt")
    /\ results' = Append(results, VenvInstanceResult(insts[idx], 1))
    /\ idx' = idx + 1
    /\ pc' = "loop"
    /\ UNCHANGED <<tree, pattern, pythons, skip_deps, pass_env, cmdargs,
                   defaults, resolve_out, listed, required, venv_py, created,
                   failed, insts, printed, exit, list_done, combos, cmd_env,
                   cmd_run>>

\* StepInterrupt as it would be if the break left the loop before the result
\* of the instance was appended
StepInterruptNoResult ==
    /\ pc \in {"clone", "install", "command"}
    /\ Log(pc, idx, "interrupt")
    /\ pc' = "summary"
    /\ UNCHANGED <<tree, pattern, pythons, skip_deps, pass_env, cmdargs,
                   defaults, resolve_out, listed, required, venv_py, created,
                   failed, insts, idx, results, printed, exit, list_done,
                   combos, cmd_env, cmd_run>>

\* KeyboardInterrupt inside the try block: code 1, break
StepInterrupt ==
    /\ pc \in {"clone", "install", "command"}
    /\ Log(pc, idx, "interrupt")
    /\ results' = Append(results, VenvInstanceResult(insts[idx], 1))
    /\ pc' = "summary"
    /\ UNCHANGED <<tree, pattern, pythons, skip_deps, pass_env, cmdargs,
                   defaults, resolve_out, listed, required, venv_py, created,
                   failed, insts, idx, printed, exit, list_done, combos,
                   cmd_env, cmd_run>>

\* StepError as it would be if the handler of Exception only logged
StepErrorContained ==
    /\ pc \in {"clone", "install", "command"}
    /\ Log(pc, idx, "error")
    /\ results' = Append(results, VenvInstanceResult(insts[idx], 1))
    /\ idx' = idx + 1
    /\ pc' = "loop"
    /\ UNCHANGED <<tree, pattern, pythons, skip_deps, pass_env, cmdargs,
                   defaults, resolve_out, listed, required, venv_py, created,
                   failed, insts, printed, exit, list_done, combos, cmd_env,
                   cmd_run>>

\* any other Exception inside the try block: sys.exit(1); finally appends the
\* result, whose code is still the default
StepError ==
    /\ pc \in {"clone", "install", "command"}
    /\ Log(pc, idx, "error")
    /\ results' = Append(results, VenvInstanceResult(insts[idx], 1))
    /\ Exit("nonzero")
    /\ UNCHANGED <<tree, pattern, pythons, skip_deps, pass_env, cmdargs,
                   defaults, resolve_out, listed, required, venv_py, created,
                   failed, insts, idx, printed, list_done, combos, cmd_env,
                   cmd_run>>

\* how `last` names a place outside the try block
Outside(where) ==
    CASE where = "provision"  -> "at_provision"
      [] where = "devinstall" -> "at_devinstall"
      [] where = "loop"       -> "at_loop"
      [] where = "summary"    -> "at_summary"

\* an exception (KeyboardInterrupt or any other) raised outside the try
\* block of the loop, where nothing catches it: in generate_base_venvs
\* (only CmdFailure and FileNotFoundError are caught there), between two
\* instances, or while the summary is printed
Uncaught(what) ==
    /\ pc \in {"provision", "devinstall", "loop", "summary"}
    /\ Log(Outside(pc), 0, what)
    /\ Exit("nonzero")
    /\ UNCHANGED <<tree, pattern, pythons, skip_deps, pass_env, cmdargs,
                   defaults, resolve_out, listed, required, venv_py, created,
                   failed, insts, idx, results, printed, list_done, combos,
                   cmd_env, cmd_run>>

\* Summary as it would be if only the last result decided the exit status
SummaryLastOnly ==
    /\ pc = "summary"
    /\ printed' = [done |-> TRUE,
                   lines |-> [i \in 1..Len(results) |->
                                [failed |-> results[i].code # 0,
                                 instance |-> results[i].instance]]]
    /\ Exit(IF results # <<>> /\ results[Len(results)].code # 0
            THEN "nonzero" ELSE "zero")
    /\ UNCHANGED <<tree, pattern, pythons, skip_deps, pass_env, cmdargs,
                   defaults, resolve_out, listed, required, venv_py, created,
                   failed, insts, idx, results, last, list_done, combos,
                   cmd_env, cmd_run>>

\* lines 243-252: the summary, then sys.exit(1) if a result has a code # 0
Summary ==
    /\ pc = "summary"
    /\ printed' = [done |-> TRUE,
                   lines |-> [i \in 1..Len(results) |->
                                [failed |-> results[i].code # 0,
                                 instance |-> results[i].instance]]]
    /\ Exit(IF \E i \in 1..Len(results) : results[i].code # 0
            THEN "nonzero" ELSE "zero")
    /\ UNCHANGED <<tree, pattern, pythons, skip_deps, pass_env, cmdargs,
                   defaults, resolve_out, listed, required, venv_py, created,
                   failed, insts, idx, results, last, list_done, combos,
                   cmd_env, cmd_run>>

----------------------------------------------------------------------------
(* Specifications *)

\* the pattern of the session: it matches the name "a" and not the name "x"
Patterns == { {"a"} }

\* the fields of a node other than its children
Fields(names, commands, pyss, pkgss, envs) ==
    [name : names, command : commands, pys : pyss, pkgs : pkgss, env : envs]

\* the trees of the runs: three nodes that are runnable or not, on
\* interpreters 1 and 2, with and without packages
RunTrees ==
    TreesOver(Fields({None}, {None, "c"}, {<<1>>}, {Shared}, {Shared}),
              Fields({"a", "x"}, {"c"}, {<<>>, <<2>>},
                     {Shared, Own(<< <<"p", <<V1>>>> >>)}, {Shared}))

\* the state of a process whose session was just constructed
InitWith(trees, filters, skips, passes, args) ==
    /\ tree \in trees
    /\ pattern \in Patterns
    /\ pythons \in filters
    /\ skip_deps \in skips
    /\ pass_env \in passes
    /\ cmdargs \in args
    /\ cmd_run = <<>>
    /\ list_done = FALSE
    /\ combos = [done |-> FALSE, specs |-> <<>>, out |-> <<>>]
    /\ cmd_env = <<>>
    /\ defaults = [pkgs |-> <<>>, env |-> <<>>]
    /\ resolve_out = [node |-> 0, venv |-> <<>>]
    /\ listed = <<>>
    /\ pc = "start"
    /\ required = {}
    /\ venv_py = 0
    /\ created = {}
    /\ failed = {}
    /\ insts = <<>>
    /\ idx = 0
    /\ results = <<>>
    /\ last = <<"none", 0, "none">>
    /\ printed = [done |-> FALSE, lines |-> <<>>]
    /\ exit = "running"

Init == InitWith(RunTrees, {{}, {1}}, BOOLEAN, BOOLEAN, {None})

Next ==
    \/ RunStart
    \/ \E p \in required : CreateOk(p)
    \/ \E p \in required, how \in {"fail", "notfound"} : CreateFail(p, how)
    \/ DevInstallOk
    \/ DevInstallFail
    \/ LoopStart
    \/ LoopNext
    \/ StepOk
    \/ \E code \in 1..MaxCode : StepFail(code)
    \/ StepInterrupt
    \/ StepError
    \/ \E what \in {"interrupt", "error"} : Uncaught(what)
    \/ Summary

Spec == Init /\ [][Next]_vars

\* the trees of the enumerations: names that match, do not match or are
\* unset, commands and interpreters set or inherited, package and env axes
\* that are shared defaults, override an ancestor's key or add a key
Axes ==
    { <<<<>>, Shared, Shared>>,
      <<<<2, 1>>, Own(<< <<"p", <<V0, V1>>>> >>), Own(<< <<"e", <<"1", "2">>>> >>)>>,
      <<<<>>, Own(<< <<"q", <<NoneV>>>> >>), Shared>> }

EnumTrees ==
    TreesOver({[name |-> nc[1], command |-> nc[2], pys |-> ps, pkgs |-> pk,
                env |-> Shared] :
                  nc \in {<<None, None>>, <<None, "c">>, <<"x", "c">>},
                  ps \in {<<>>, <<1>>},
                  pk \in {Shared, Own(<< <<"p", <<V0>>>> >>)}},
              {[name |-> n, command |-> c, pys |-> a[1], pkgs |-> a[2],
                env |-> a[3]] : n \in {None, "a", "x"}, c \in {None, "d"},
                                a \in Axes})

InitEnum == InitWith(EnumTrees, {{}}, {FALSE}, {FALSE}, {None})

NextEnum ==
    \/ ListVenvs
    \/ \E n \in Nodes : Resolve(n)

SpecEnum == InitEnum /\ [][NextEnum]_vars

\* the candidate lists of an axis: the runs of at most MaxVals consecutive
\* elements of all
CandLists(all) ==
    {SubSeq(all, a, b) : a \in 1..Len(all), b \in 0..Len(all)} \cap
    UNION {[1..n -> Range(all)] : n \in 0..MaxVals}

\* versions of a package axis (None, ">=1", "==1", "") and values of an env
\* axis (a string, a callable, None)
Versions == <<NoneV, V1, V2, V0>>
EnvVals == <<"1", CallP, None>>

\* the dicts with at most one axis per name of names, in the order of names
RECURSIVE DictsOver(_, _)
DictsOver(names, lists) ==
    IF names = <<>> THEN { <<>> }
    ELSE LET rest == DictsOver(Tail(names), lists)
         IN  rest \cup {<< <<Head(names), l>> >> \o d : l \in lists, d \in rest}

\* the trees of a single node, the root; nodes 2 and 3 are Venv() objects
\* that no node holds
AxesTrees ==
    {[n \in Nodes |->
        IF n = Root THEN Venv(None, c, ps, Own(pk), IF ev = <<>> THEN Shared ELSE Own(ev), <<>>)
        ELSE Venv(None, None, <<>>, Shared, Shared, <<>>)] :
        c \in {None, "c"}, ps \in {<<>>, <<1>>, <<2, 1>>},
        pk \in DictsOver(<<"p", "q">>, CandLists(Versions)),
        ev \in DictsOver(<<"e">>, CandLists(EnvVals)) \cup
               DictsOver(<<"f">>, CandLists(EnvVals))}

\* list_venvs and expand_specs on the single-node trees
InitAxes == InitWith(AxesTrees, {{}}, {FALSE}, {FALSE}, {None})

NextAxes ==
    \/ ListVenvs
    \/ \E field \in {"pkgs", "env"} : ExpandSpecs(field)

SpecAxes == InitAxes /\ [][NextAxes]_vars

\* the runs on the single-node trees in which every command succeeds
InitOk == InitWith(AxesTrees, {{}}, {FALSE}, BOOLEAN, {None})

NextOk ==
    \/ RunStart
    \/ \E p \in required : CreateOk(p)
    \/ DevInstallOk
    \/ LoopStart
    \/ LoopNext
    \/ StepOk
    \/ Summary

SpecOk == InitOk /\ [][NextOk]_vars

\* the single-node trees whose command has no field, the field {cmdargs} once
\* or twice, another field, or doubled braces
Templates == {"c", "c {cmdargs}", "{cmdargs} c {cmdargs}", "c ${X}", "c {{}}"}

CmdTrees ==
    {[n \in Nodes |->
        IF n = Root THEN Venv(None, c, <<1>>, Own(pk), Shared, <<>>)
        ELSE Venv(None, None, <<>>, Shared, Shared, <<>>)] :
        c \in Templates,
        pk \in {<<>>, << <<"p", <<V1>>>> >>, << <<"p", <<NoneV, V1>>>> >>}}

\* the runs on these trees without cmdargs (None, the default of run), with
\* the empty string and with an argument; a step succeeds, or raises an
\* exception that is not a CmdFailure
InitCmd == InitWith(CmdTrees, {{}}, {FALSE}, {FALSE}, {None, "", "-k x"})

NextCmd ==
    \/ RunStart
    \/ \E p \in required : CreateOk(p)
    \/ DevInstallOk
    \/ LoopStart
    \/ LoopNext
    \/ StepOk
    \/ StepError
    \/ Summary

SpecCmd == InitCmd /\ [][NextCmd]_vars

----------------------------------------------------------------------------
(* Properties of Session.run *)

\* the steps of one instance inside the try block
Steps == {"clone", "install", "command"}

\* no step is taken once the process has exited
Terminated == [][pc # "exited"]_vars

\* the summary was printed with one line per result, in order
AllReported ==
    /\ printed.done
    /\ Len(printed.lines) = Len(results)
    /\ \A i \in 1..Len(results) :
          printed.lines[i] = [failed |-> results[i].code # 0,
                              instance |-> results[i].instance]

AllZero == \A i \in 1..Len(results) : results[i].code = 0

\* C1: a step of an instance that ends in a command failure gives that
\* instance a result with a non-zero code and the loop goes on with the next
\* instance; a result has code 0 exactly when the instance's command step
\* succeeded; the results are those of the instances in order, and a run
\* that reaches its summary without an interrupt has one per instance.
FailureContainment ==
    /\ [](pc \in {"loop"} \cup Steps =>
            /\ Len(results) = idx - 1
            /\ \A i \in 1..Len(results) : results[i].instance = insts[i])
    /\ [](printed.done /\ last[3] # "interrupt" =>
            /\ Len(results) = Len(insts)
            /\ \A i \in 1..Len(results) : results[i].instance = insts[i])
    /\ [][(pc \in Steps /\ last'[3] = "fail") =>
            (/\ pc' = "loop"
             /\ idx' = idx + 1
             /\ Len(results') = idx
             /\ SubSeq(results', 1, idx - 1) = results
             /\ results'[idx].instance = insts[idx]
             /\ results'[idx].code # 0)]_vars
    /\ [][Len(results') > Len(results) =>
            (results'[Len(results')].code = 0 <=>
                (pc = "command" /\ last'[3] = "ok"))]_vars

\* C1 witness: three instances, the second failed, the first and third
\* succeeded, and the run reported failure
ThreeResultsSecondFailed ==
    /\ printed.done
    /\ Len(insts) = 3
    /\ Len(results) = 3
    /\ results[1].code = 0
    /\ results[2].code # 0
    /\ results[3].code = 0
    /\ exit = "nonzero"

\* C2 as stated: the exit status is zero iff every result has code zero
ExitZeroIffAllZero ==
    pc = "exited" => (exit = "zero" <=> AllZero)

\* C2 amended: the exit status is zero iff the run reached its summary and
\* every result has code zero; a run that ends before its summary exits
\* non-zero whatever the results
ExitStatus ==
    pc = "exited" =>
        /\ exit \in {"zero", "nonzero"}
        /\ exit = "zero" <=> (printed.done /\ AllZero)

\* C2 witness: a run of three instances that exits zero
ExitedZero ==
    pc = "exited" /\ exit = "zero" /\ Len(results) = 3

\* C3 as stated: no step is attempted for an instance whose interpreter's
\* base environment could not be created
SkipFailedInterpreter ==
    last[1] \in Steps => insts[last[2]].py \notin failed

\* C4: a failure to create a base environment leaves the process running in
\* the provisioning loop; the dev package is only installed into created
\* environments; when the instance loop is reached every required
\* interpreter was visited; and no process ends on a creation failure.
CreateFailureContained ==
    /\ [](created \cap failed = {})
    /\ [](pc = "devinstall" => venv_py \in created)
    /\ [](last[1] = "devinstall" => last[2] \in created)
    /\ [](pc \in {"loop", "summary"} \cup Steps \/ printed.done =>
            created \cup failed = required)
    /\ [](pc = "exited" => last[1] # "create")
    /\ [][failed' # failed =>
            (/\ pc' = "provision"
             /\ exit' = "running"
             /\ created' = created
             /\ last'[1] = "create"
             /\ failed' = failed \cup {last'[2]})]_vars

\* C4 witness: one interpreter failed, another was created, and the run
\* printed its summary with a result
SummaryAfterCreateFailure ==
    /\ printed.done
    /\ failed # {}
    /\ created # {}
    /\ results # <<>>

\* C5: a failed dev install ends the process at once with a failure status,
\* before the instance loop and without a summary; with skip_deps no dev
\* install is attempted.
DevInstallFailureFatal ==
    /\ [](last[1] = "devinstall" /\ last[3] = "fail" =>
            /\ pc = "exited"
            /\ exit = "nonzero"
            /\ insts = <<>>
            /\ results = <<>>
            /\ ~printed.done)
    /\ [](skip_deps => pc # "devinstall" /\ last[1] # "devinstall")
    /\ [](~skip_deps /\ last[1] = "create" /\ last[3] = "ok" => pc = "devinstall")
    /\ Terminated

\* C5 witness: the dev install failed while another interpreter was still
\* to be provisioned
DevInstallFailedEarly ==
    /\ last[1] = "devinstall"
    /\ last[3] = "fail"
    /\ required \ (created \cup failed) # {}

\* C6 as stated: after an interrupt at any point, the run reports failure
\* and every result collected is reported in the summary
InterruptAnywhere ==
    pc = "exited" /\ last[3] = "interrupt" =>
        /\ exit = "nonzero"
        /\ results # <<>> => AllReported

\* C6 amended: an interrupt during a step of an instance (inside the try
\* block) gives that instance a failed result and leaves the loop; earlier
\* results are never changed; and if nothing else is raised before the
\* process exits, no later instance was attempted, every result is in the
\* summary and the run reports failure.
InterruptInStep ==
    /\ [][(pc \in Steps /\ last'[3] = "interrupt") =>
            (/\ pc' = "summary"
             /\ Len(results') = idx
             /\ results'[idx].instance = insts[idx]
             /\ results'[idx].code # 0)]_vars
    /\ [][\A i \in 1..Len(results) :
            Len(results') >= i /\ results'[i] = results[i]]_vars
    /\ [](pc = "exited" /\ last[1] \in Steps /\ last[3] = "interrupt" =>
            /\ AllReported
            /\ exit = "nonzero"
            /\ Len(results) = last[2])

\* C6 witness: the second of three instances was interrupted after the first
\* succeeded, and the process exited
InterruptedSecond ==
    /\ pc = "exited"
    /\ last[1] \in Steps
    /\ last[3] = "interrupt"
    /\ last[2] = 2
    /\ Len(insts) = 3
    /\ results[1].code = 0

\* C7: an unexpected error raised while an instance is processed ends the
\* process at once with a failure status and no summary; the results hold
\* nothing beyond the instance in flight.
UnexpectedErrorFatal ==
    /\ [](last[3] = "error" /\ last[1] \in Steps \cup {"at_loop"} =>
            /\ pc = "exited"
            /\ exit = "nonzero"
            /\ ~printed.done
            /\ last[1] \in Steps => Len(results) = last[2])
    /\ [][(pc \in Steps /\ last'[3] = "error") => idx' = idx]_vars
    /\ Terminated

\* C7 witness: an error in a step of the first of three instances
ErrorInFirst ==
    /\ last[1] \in Steps
    /\ last[3] = "error"
    /\ last[2] = 1
    /\ Len(insts) = 3

----------------------------------------------------------------------------
(* Properties of Venv.instances and Venv.resolve *)

\* a node below the root that the loop of its parent skips
Pruned(n) ==
    n # Root /\ tree[n].name # None /\ ~Match(pattern, tree[n].name)

\* C8: no listed instance comes from a node below the root whose name does
\* not match the pattern, nor from a descendant of such a node.
SubtreePruning ==
    \A i \in 1..Len(listed) :
        \A k \in 1..Len(Chain(tree, listed[i].origin)) :
            ~Pruned(Chain(tree, listed[i].origin)[k])

\* C8 witness: instances were listed from a tree where a node with a
\* non-matching name has a runnable child whose own name matches
PrunedWithMatchingChild ==
    /\ listed # <<>>
    /\ \E x \in Nodes, y \in Nodes \ {Root} :
          /\ ParentOf(tree, y) = x
          /\ Pruned(x)
          /\ tree[y].name # None
          /\ Match(pattern, tree[y].name)
          /\ tree[y].command # None
          /\ tree[y].pys # <<>>

\* C9 as stated: a node, the root included, whose name is set and does not
\* match yields nothing, so every yielded instance has a name that is unset
\* or matches
NamedNodeFilter ==
    /\ (tree[Root].name # None /\ ~Match(pattern, tree[Root].name)) =>
          listed = <<>>
    /\ \A i \in 1..Len(listed) :
          listed[i].name = None \/ Match(pattern, listed[i].name)

\* what the nodes of a chain define for a dict field, later nodes
\* overwriting the keys of earlier ones; a node built without the field
\* defines nothing
RECURSIVE ChainDict(_, _, _)
ChainDict(chain, field, acc) ==
    IF chain = <<>> THEN acc
    ELSE LET f == IF field = "pkgs" THEN tree[Head(chain)].pkgs
                                     ELSE tree[Head(chain)].env
         IN  ChainDict(Tail(chain), field,
                       Update(acc, IF f.shared THEN <<>> ELSE f.val))

SameMap(d, e) ==
    /\ Keys(d) = Keys(e)
    /\ \A k \in Keys(d) : Get(d, k) = Get(e, k)

\* C10 as stated: the resolved pkgs and env of a node are the key-wise
\* overwrite accumulation over its chain, with nothing from outside it
ResolveIsChainAccumulation ==
    resolve_out.node # 0 =>
        /\ SameMap(resolve_out.venv.pkgs,
                   ChainDict(Chain(tree, resolve_out.node), "pkgs", <<>>))
        /\ SameMap(resolve_out.venv.env,
                   ChainDict(Chain(tree, resolve_out.node), "env", <<>>))

\* C11 as stated: whatever was resolved or listed, the pkgs and env a node
\* refers to hold what they held at construction (nothing, for a node built
\* without them)
TreeNeverMutated ==
    \A n \in Nodes :
        /\ Deref(tree[n].pkgs, defaults.pkgs) = tree[n].pkgs.val
        /\ Deref(tree[n].env, defaults.env) = tree[n].env.val

----------------------------------------------------------------------------
(* Properties of the expansion of the axes *)

\* the product of the lengths of the candidate lists of specs
RECURSIVE Prod(_)
Prod(specs) == IF specs = <<>> THEN 1 ELSE Len(specs[1][2]) * Prod(Tail(specs))

\* the i-th combination of specs, counting with the last axis as the least
\* significant digit: one (axis, value) pair per axis, in the order of the axes
Combo(specs, i) ==
    [a \in 1..Len(specs) |->
        <<specs[a][1],
          specs[a][2][(((i - 1) \div Prod(SubSeq(specs, a + 1, Len(specs))))
                         % Len(specs[a][2])) + 1]>>]

\* the root of a single-node tree as instances resolves it
RootResolved ==
    [name |-> tree[Root].name, command |-> tree[Root].command,
     pys |-> tree[Root].pys, env |-> Deref(tree[Root].env, defaults.env),
     pkgs |-> Deref(tree[Root].pkgs, defaults.pkgs)]

\* C12: a runnable node yields |env combinations| * |interpreters| *
\* |package combinations| instances, one per triple, the env combination
\* varying slowest, then the interpreter, the package combination fastest.
OneInstancePerTriple ==
    LET r == RootResolved
        E == Prod(r.env)
        P == Len(r.pys)
        K == Prod(r.pkgs)
    IN  (list_done /\ r.command # None /\ r.pys # <<>>) =>
           /\ Len(listed) = E * P * K
           /\ \A e \in 1..E, p \in 1..P, k \in 1..K :
                 listed[((e - 1) * P + (p - 1)) * K + k] =
                    VenvInstance(r.name, r.command, r.pys[p], Combo(r.env, e),
                                 Combo(r.pkgs, k), Root)

\* C12 witness: a runnable node with two interpreters, an env axis of two
\* values and two package axes of two versions each was listed: 16 instances
SixteenInstancesListed ==
    /\ list_done
    /\ tree[Root].command # None
    /\ Len(tree[Root].pys) = 2
    /\ Prod(RootResolved.env) = 2
    /\ Len(RootResolved.pkgs) = 2
    /\ Prod(RootResolved.pkgs) = 4
    /\ Len(listed) = 16

----------------------------------------------------------------------------
(* Properties of the enumeration of a tree *)

\* the last element of vals that is not empty, or empty
LastSet(vals, empty) ==
    LET S == {i \in 1..Len(vals) : vals[i] # empty}
    IN  IF S = {} THEN empty ELSE vals[CHOOSE i \in S : \A j \in S : j <= i]

\* name, command and interpreters along the chain of n: the last that is set
ChainName(n) ==
    LastSet([k \in 1..Len(Chain(tree, n)) |-> tree[Chain(tree, n)[k]].name], None)
ChainCommand(n) ==
    LastSet([k \in 1..Len(Chain(tree, n)) |-> tree[Chain(tree, n)[k]].command], None)
ChainPys(n) ==
    LastSet([k \in 1..Len(Chain(tree, n)) |-> tree[Chain(tree, n)[k]].pys], <<>>)

Runnable(n) == ChainCommand(n) # None /\ ChainPys(n) # <<>>

\* the enumeration gets to n: neither n nor an ancestor of n is pruned
Reached(n) == \A k \in 1..Len(Chain(tree, n)) : ~Pruned(Chain(tree, n)[k])

\* n is m or an ancestor of m
Above(n, m) == \E k \in 1..Len(Chain(tree, m)) : Chain(tree, m)[k] = n

\* listed holds an instance of m for every interpreter of m and every
\* combination of the packages and of the env vars that the chain of m defines
Yielded(m) ==
    LET pkgs == ChainDict(Chain(tree, m), "pkgs", <<>>)
        env  == ChainDict(Chain(tree, m), "env", <<>>)
    IN  \A p \in 1..Len(ChainPys(m)), k \in 1..Prod(pkgs), e \in 1..Prod(env) :
           \E i \in 1..Len(listed) :
              /\ listed[i].origin = m
              /\ listed[i].py = ChainPys(m)[p]
              /\ Range(Combo(pkgs, k)) \subseteq Range(listed[i].pkgs)
              /\ Range(Combo(env, e)) \subseteq Range(listed[i].env)

\* C13: where a node that has children is itself runnable, the listing holds
\* its own instances and those of every runnable node below it that is not
\* pruned.
ChildrenAndOwn ==
    list_done =>
        \A n \in Nodes :
            (tree[n].venvs # <<>> /\ Reached(n) /\ Runnable(n)) =>
                \A m \in Nodes :
                    (Above(n, m) /\ Reached(m) /\ Runnable(m)) => Yielded(m)

\* C13 witness: a listing with instances of a runnable node and instances of
\* a child of it
ParentAndChildListed ==
    /\ list_done
    /\ \E n \in Nodes, c \in Nodes \ {Root} :
          /\ ParentOf(tree, c) = n
          /\ Reached(c) /\ Runnable(c) /\ Runnable(n)
          /\ \E i, j \in 1..Len(listed) :
                listed[i].origin = n /\ listed[j].origin = c

\* every instance listed from m has the command and an interpreter of the
\* chain of m and, for each package and env var the chain defines, one of the
\* candidates the chain gives it
FromChain(m) ==
    LET pkgs == ChainDict(Chain(tree, m), "pkgs", <<>>)
        env  == ChainDict(Chain(tree, m), "env", <<>>)
    IN  \A i \in 1..Len(listed) :
           listed[i].origin = m =>
              /\ listed[i].command = ChainCommand(m)
              /\ listed[i].py \in Range(ChainPys(m))
              /\ \A x \in Keys(pkgs) : Get(listed[i].pkgs, x) \in Range(Get(pkgs, x))
              /\ \A x \in Keys(env) : Get(listed[i].env, x) \in Range(Get(env, x))

\* C14: a node whose resolved command is unset or whose resolved interpreter
\* list is empty yields nothing of its own, and a reached runnable node below
\* it is listed with the interpreters, packages and env vars of the chain,
\* the node's included.
NonRunnableStillInherited ==
    list_done =>
        \A n \in Nodes :
            ~Runnable(n) =>
                /\ \A i \in 1..Len(listed) : listed[i].origin # n
                /\ \A m \in Nodes \ {n} :
                      (Above(n, m) /\ Reached(m) /\ Runnable(m)) =>
                          Yielded(m) /\ FromChain(m)

\* C14 witness: a node with interpreters and packages but no command, and
\* below it a node that sets the command and no interpreters; the listing
\* holds instances of the lower node on the upper node's interpreters and
\* with its package, and none of the upper node
InheritedFromNonRunnable ==
    /\ list_done
    /\ \E n \in Nodes, m \in Nodes \ {Root} :
          /\ n # m /\ Above(n, m) /\ Reached(m)
          /\ ~Runnable(n)
          /\ tree[n].pys # <<>> /\ ~tree[n].pkgs.shared
          /\ tree[m].pys = <<>> /\ tree[m].command # None
          /\ \A i \in 1..Len(listed) : listed[i].origin # n
          /\ \E i \in 1..Len(listed) :
                /\ listed[i].origin = m
                /\ listed[i].py \in Range(tree[n].pys)
                /\ Keys(tree[n].pkgs.val) \subseteq Keys(listed[i].pkgs)

\* C15: the name, the command and the interpreters that resolve returns for
\* a node are each the value of the last element of the node's chain whose
\* value is set.
ResolvedScalars ==
    resolve_out.node # 0 =>
        /\ resolve_out.venv.name = ChainName(resolve_out.node)
        /\ resolve_out.venv.command = ChainCommand(resolve_out.node)
        /\ resolve_out.venv.pys = ChainPys(resolve_out.node)

\* C15 witness: resolve was called on the last node of a chain of three
\* named nodes; the node has no interpreters, its parent has
ResolvedThirdOfChain ==
    /\ resolve_out.node = 3
    /\ Chain(tree, 3) = <<1, 2, 3>>
    /\ \A n \in Nodes : tree[n].name # None
    /\ tree[1].name # tree[3].name
    /\ tree[3].pys = <<>>
    /\ tree[2].pys # <<>>
    /\ tree[1].pys # <<>>
    /\ tree[1].pys # tree[2].pys

----------------------------------------------------------------------------
(* Properties of the derived names and of the command's env *)

\* C16 as stated: two results of a run on the same interpreter whose
\* package-to-version mappings (None versions left out) differ have
\* different venv names
InjectiveNames ==
    \A i, j \in 1..Len(results) :
        (/\ results[i].instance.py = results[j].instance.py
         /\ ~SameMap(InstPkgs(results[i].instance), InstPkgs(results[j].instance)))
        => results[i].venv_name # results[j].venv_name

\* C17: two results of a run on the same interpreter and with the same
\* package-to-version mapping (None versions left out) have the same venv
\* name, whichever nodes their instances come from.
DeterministicNames ==
    \A i, j \in 1..Len(results) :
        (/\ results[i].instance.py = results[j].instance.py
         /\ SameMap(InstPkgs(results[i].instance), InstPkgs(results[j].instance)))
        => results[i].venv_name = results[j].venv_name

\* C17 witness: the results hold two instances from different nodes, with
\* different names, on the same interpreter and with the same package
SameMappingTwoNodes ==
    \E i, j \in 1..Len(results) :
        /\ results[i].instance.origin # results[j].instance.origin
        /\ results[i].instance.name # results[j].instance.name
        /\ results[i].instance.py = results[j].instance.py
        /\ InstPkgs(results[i].instance) # <<>>
        /\ SameMap(InstPkgs(results[i].instance), InstPkgs(results[j].instance))

\* C18: expand_specs returns as many combinations as the product of the
\* lengths of the candidate lists; the i-th holds one (axis, value) pair per
\* axis, in the order of the axes, the last axis varying fastest; for the
\* empty mapping it returns the empty combination alone. (An axis without
\* candidates makes the product 0: no combination.)
ExpandSpecsIsProduct ==
    combos.done =>
        /\ Len(combos.out) = Prod(combos.specs)
        /\ \A i \in 1..Len(combos.out) : combos.out[i] = Combo(combos.specs, i)
        /\ combos.specs = <<>> => combos.out = << <<>> >>

\* C18 witness: expand_specs was called on two axes of two candidates each
\* and returned four combinations
TwoByTwoExpanded ==
    /\ combos.done
    /\ Len(combos.specs) = 2
    /\ Len(combos.specs[1][2]) = 2
    /\ Len(combos.specs[2][2]) = 2
    /\ Len(combos.out) = 4

\* env is the host's variables (none without pass_env) overlaid with the
\* pairs of inst whose value, evaluated on the packages of inst if it is a
\* callable, is not None
EnvAsStated(inst, env) ==
    LET host == IF pass_env THEN environ ELSE <<>>
        val(k) == ResolvedVal(Get(inst.env, k), InstPkgs(inst))
        set == {k \in Keys(inst.env) : val(k) # None}
    IN  /\ Keys(env) = Keys(host) \cup set
        /\ \A k \in set : Get(env, k) = val(k)
        /\ \A k \in Keys(host) \ set : Get(env, k) = Get(host, k)
        /\ ~pass_env => Keys(env) \cap Keys(environ) \subseteq set

\* C19: the env of an instance's command is the host's variables if pass_env
\* is on, nothing otherwise, overlaid with the instance's variables: a
\* callable value is evaluated on the instance's packages, a value that
\* resolves to None is left out, and the instance's value wins over the
\* host's.
CommandEnvOverlay ==
    (last[1] = "command" /\ last[3] \in {"ok", "fail"}) =>
        EnvAsStated(insts[last[2]], cmd_env)

\* C19 witness: with pass_env on, a command ran whose instance sets the host
\* variable "e" to a callable that resolved to a value: the env holds that
\* value for "e" and the host's value for "h"
HostVariableOverridden ==
    /\ last[1] = "command"
    /\ pass_env
    /\ <<"e", CallP>> \in Range(insts[last[2]].env)
    /\ Get(cmd_env, "e") = "has_p"
    /\ Get(cmd_env, "h") = "host_h"

----------------------------------------------------------------------------
(* Properties of the interpreter filter *)

\* the interpreters of the instances that match, read off the tree
MatchingPys ==
    UNION {Range(ChainPys(n)) : n \in {m \in Nodes : Reached(m) /\ Runnable(m)}}

\* p passes the filter: the filter is empty or holds p
Selected(p) == pythons = {} \/ p \in pythons

\* C20: generate_base_venvs attempts to provision the interpreters of the
\* matching instances that pass the filter, each once and no other, and the
\* loop of run goes through the instances of these interpreters and no
\* other; an empty filter lets every interpreter pass.
InterpreterFilter ==
    /\ [][(pc = "start" /\ pc' # "start") =>
             required' = {p \in MatchingPys : Selected(p)}]_vars
    /\ [][pc # "start" => required' = required]_vars
    /\ [](created \cup failed \subseteq required /\ created \cap failed = {})
    /\ [][(created' \cup failed' # created \cup failed) =>
             \E p \in required \ (created \cup failed) :
                 created' \cup failed' = created \cup failed \cup {p}]_vars
    /\ [][(idx = 0 /\ idx' > 0) =>
             /\ created \cup failed = required
             /\ \A n \in Nodes :
                   (Reached(n) /\ Runnable(n)) =>
                       \A p \in Range(ChainPys(n)) :
                           Selected(p) =>
                               \E i \in 1..Len(insts') :
                                   insts'[i].origin = n /\ insts'[i].py = p]_vars
    /\ [][idx > 0 => insts' = insts]_vars
    /\ [](/\ \A i \in 1..Len(insts) : Selected(insts[i].py)
          /\ \A i \in 1..Len(results) : results[i].instance = insts[i])

\* C20 witness: a run with the filter {1} on a tree whose matching instances
\* are on interpreters 1 and 2 got to its summary: interpreter 1 alone was
\* provisioned and every result is on interpreter 1
FilteredRunSummarised ==
    /\ printed.done
    /\ pythons = {1}
    /\ MatchingPys = {1, 2}
    /\ created \cup failed = {1}
    /\ results # <<>>
    /\ \A i \in 1..Len(results) : results[i].instance.py = 1

----------------------------------------------------------------------------
(* Properties of the test command *)

\* the command line of inst with every {cmdargs} replaced by the arguments,
\* by nothing when there are none, and everything else as it is written
Substituted(inst) ==
    [i \in 1..Len(command_line(inst)) |->
        IF command_line(inst)[i] = "{cmdargs}"
        THEN (IF cmdargs = None THEN "" ELSE cmdargs)
        ELSE command_line(inst)[i]]

\* C21 as stated: the command line executed for an instance is its command
\* with every {cmdargs} replaced by the pass-through arguments, by the empty
\* string when there are none, and a command without {cmdargs} is executed
\* as written
CmdargsSubstituted ==
    (last[1] = "command" /\ last[3] \in {"ok", "fail"}) =>
        cmd_run = Substituted(insts[last[2]])

----------------------------------------------------------------------------
(* Properties of the steps of an instance *)

\* inst has a package whose version is not None
HasPackage(inst) == \E k \in 1..Len(inst.pkgs) : inst.pkgs[k][2] # NoneV

\* C22: the first step of an instance that has a package with a version is
\* the clone of the base venv, whatever was cloned before; an instance
\* without such a package has no clone and no install, and its command runs
\* in the base venv.
CloneAlwaysAttempted ==
    /\ [][(pc = "loop" /\ pc' \in Steps) =>
             pc' = (IF HasPackage(insts[idx]) THEN "clone" ELSE "command")]_vars
    /\ [][(pc = "clone" /\ pc' # pc) =>
             (last'[1] = "clone" /\ last'[2] = idx)]_vars
    /\ [][(last' # last /\ last'[1] \in {"clone", "install"}) =>
             HasPackage(insts[last'[2]])]_vars
    /\ [][(Len(results') > Len(results) /\ ~HasPackage(insts[idx])) =>
             /\ results'[Len(results')].venv_name = get_base_venv_path(insts[idx].py)
             /\ last'[1] = "command"
             /\ SubSeq(cmd_run', 1, 4) =
                   <<"source ">> \o get_base_venv_path(insts[idx].py)
                                 \o <<"/bin/activate && ">>]_vars

\* C22 witness: the clone of the second instance was run although the first
\* instance was cloned under the same venv name
ClonedSameNameAgain ==
    /\ last = <<"clone", 2, "ok">>
    /\ Len(results) = 1
    /\ results[1].venv_name = venv_name(insts[2])
    /\ HasPackage(results[1].instance)

\* C23: no base venv is provisioned once the loop of run has started; every
\* step is a step of the current instance, which starts only when all the
\* instances before it have their result; the steps of an instance come in
\* the order clone, install, command, each after the success of the one
\* before; and after a failed clone or install the instance gets its result
\* without a further step.
StepOrdering ==
    /\ [](pc \in Steps \cup {"loop"} => created \cup failed = required)
    /\ [][(last' # last /\ last'[1] \in {"create", "devinstall"}) =>
             (idx = 0 /\ results = <<>> /\ pc \in {"provision", "devinstall"})]_vars
    /\ [][(last' # last /\ last'[1] \in Steps) =>
             (last'[1] = pc /\ last'[2] = idx /\ Len(results) = idx - 1)]_vars
    /\ [][(pc' \in Steps /\ pc' # pc) =>
             CASE pc' = "clone"   -> pc = "loop"
               [] pc' = "install" -> pc = "clone" /\ last' = <<"clone", idx, "ok">>
               [] pc' = "command" ->
                     \/ pc = "install" /\ last' = <<"install", idx, "ok">>
                     \/ pc = "loop" /\ ~HasPackage(insts[idx])]_vars
    /\ [][(pc \in {"clone", "install"} /\ pc' # pc /\ last'[3] # "ok") =>
             (pc' \notin Steps /\ Len(results') = idx)]_vars
    /\ [][idx' # idx =>
             \/ idx = 0 /\ idx' = 1 /\ pc = "provision"
             \/ idx' = idx + 1 /\ pc \in Steps /\ Len(results') = idx]_vars

\* C23 witness: the install of the first instance failed after its clone;
\* the instance has its result and the loop is at the second instance
InstallFailedNoCommand ==
    /\ last = <<"install", 1, "fail">>
    /\ pc = "loop"
    /\ idx = 2
    /\ Len(results) = 1
    /\ results[1].code # 0
    /\ Len(insts) >= 2

----------------------------------------------------------------------------
(* Properties of the results list *)

\* C24: when the summary is printed, the results are those of the instances
\* the loop started on, one each and in the order of the loop: all the
\* instances that pass the interpreter filter, or, after an interrupt, those
\* up to the instance that was interrupted; no instance has two results and
\* none is on a filtered-out interpreter.
ResultsAtSummary ==
    printed.done =>
        /\ Len(results) = IF last[3] = "interrupt" THEN last[2] ELSE Len(insts)
        /\ Len(results) <= Len(insts)
        /\ \A i \in 1..Len(results) :
              /\ results[i].instance = insts[i]
              /\ pythons # {} => results[i].instance.py \in pythons
        /\ \A i, j \in 1..Len(results) :
              i # j => results[i].instance # results[j].instance
        /\ Len(printed.lines) = Len(results)

\* C24 witness: with the filter {1} on a tree with instances on interpreters
\* 1 and 2, the first of two selected instances was interrupted and the
\* summary printed its result alone
InterruptedFirstOfFiltered ==
    /\ printed.done
    /\ pythons = {1}
    /\ MatchingPys = {1, 2}
    /\ last[3] = "interrupt"
    /\ last[2] = 1
    /\ Len(insts) = 2
    /\ Len(results) = 1

\* C25 as stated: enumeration is repeatable: once the tree has been listed,
\* listing it again with the same pattern in the same process gives the same
\* sequence of instances, with the same names, commands, interpreters, env
\* assignments and package assignments.
EnumerationRepeatable == [][list_done => listed' = listed]_vars

====
